---- MODULE Spec2Model ----
(***************************************************************************)
(* State-machine model of markov_bot: the SQLite ledger (storage.py), the  *)
(* task service (services.py), the derived values of domain.py and the    *)
(* command handlers of bot.py.                                             *)
(*                                                                         *)
(* Modelling conventions                                                   *)
(*  - a calendar date is a day number; date d + timedelta(days=n) is d + n *)
(*    and isoformat order is numeric order;                                *)
(*  - sha256(...).hexdigest()[:16] of "user:date:template" is modelled by  *)
(*    the triple <<user, date, template>> (the text is parsed back         *)
(*    unambiguously, the digest is taken to be collision free);            *)
(*  - random.Random(seed) is modelled by a small congruential generator;   *)
(*    the seed is a fixed function of (user, date) perturbed by salt, a    *)
(*    value chosen once and never changed, so that every property is       *)
(*    checked for a family of generators and not for one;                  *)
(*  - uuid.uuid4() is modelled by a fresh identifier;                      *)
(*  - the connection never issues PRAGMA foreign_keys, so SQLite does not  *)
(*    enforce the FOREIGN KEY clauses of the schema;                       *)
(*  - titles are the ASCII glosses of the Russian titles of the source.    *)
(***************************************************************************)
EXTENDS Integers, Sequences, FiniteSets, TLC

VARIABLES
    templates,    \* table task_templates, in rowid order
    assignments,  \* table task_assignments: assignment_id -> row
    events,       \* table task_events, in insertion order
    salt,         \* which generator of the family random.Random stands for
    today,        \* the date _today() returns
    result,       \* the last call: its arguments and what the caller got
    pc,           \* position of each concurrent /day handler
    seen          \* what each concurrent /day handler read

vars == <<templates, assignments, events, salt, today, result, pc, seen>>

(***************************************************************************)
(* Bounds of the model.                                                    *)
(***************************************************************************)
MaxUser == 2
MaxDate == 1
MaxEvents == 2
MaxSalt == 1
MaxDay == 2
RngMod == 64

Users == 1..MaxUser
Dates == 1..MaxDate
Writers == {"w1", "w2"}

(***************************************************************************)
(* domain.py                                                               *)
(***************************************************************************)
Skill == {"body", "capital", "productivity", "game_thinking", "psyche", "language"}

TaskStatus == {"assigned", "done", "failed"}

TaskTemplate(template_id, skill, title, min_minutes, max_minutes) ==
    [template_id |-> template_id, skill |-> skill, title |-> title,
     min_minutes |-> min_minutes, max_minutes |-> max_minutes]

TaskAssignment(assignment_id, user_id, template_id, title, skill, date_assigned, status) ==
    [assignment_id |-> assignment_id, user_id |-> user_id, template_id |-> template_id,
     title |-> title, skill |-> skill, date_assigned |-> date_assigned, status |-> status]

\* created_at and note are written once and never read; they are left out.
TaskEvent(event_id, assignment_id, user_id, status) ==
    [event_id |-> event_id, assignment_id |-> assignment_id, user_id |-> user_id,
     status |-> status]

LevelRules(level, active_skills, max_daily_tasks, min_daily_tasks) ==
    [level |-> level, active_skills |-> active_skills,
     max_daily_tasks |-> max_daily_tasks, min_daily_tasks |-> min_daily_tasks]

(***************************************************************************)
(* services.py: the default catalog and the default rules.                 *)
(***************************************************************************)
DEFAULT_TEMPLATES ==
    << TaskTemplate("body-01", "body", "Physical activity", 15, 30),
       TaskTemplate("capital-01", "capital", "Expense tracking", 10, 20),
       TaskTemplate("productivity-01", "productivity", "Day plan", 10, 20),
       TaskTemplate("game-01", "game_thinking", "Decision analysis", 10, 15),
       TaskTemplate("psyche-01", "psyche", "State log", 5, 10),
       TaskTemplate("language-01", "language", "Language practice", 15, 25) >>

DEFAULT_RULES == LevelRules(1, Skill, 3, 2)

(***************************************************************************)
(* Inputs the operations are exercised with.                               *)
(***************************************************************************)
\* Rules passed to generate_daily_plan: the default rules, rules whose only
\* active skill has one template, rules with fewer eligible templates than
\* min_daily_tasks, and rules with no active skill.
RulesInputs ==
    << DEFAULT_RULES,
       LevelRules(1, {"psyche"}, 1, 1),
       LevelRules(2, {"body"}, 2, 2),
       LevelRules(1, {}, 2, 1) >>

\* Templates passed to upsert_template besides the default ones: a new
\* template and a default template_id with another skill and title.
TemplateInputs ==
    { TaskTemplate("body-02", "body", "Stretching", 5, 10),
      TaskTemplate("body-01", "psyche", "Breathing", 5, 10) }

Min(a, b) == IF a <= b THEN a ELSE b

Range(s) == {s[i] : i \in DOMAIN s}

(***************************************************************************)
(* storage.py: the tables are the variables templates (task_templates, in  *)
(* rowid order), assignments (task_assignments, keyed by the primary key   *)
(* assignment_id) and events (task_events, in insertion order).  Every     *)
(* method runs in one transaction (_connect): it commits when the body     *)
(* returns and closes without a commit, which rolls back, when it raises.  *)
(***************************************************************************)
None == [assignment_id |-> <<>>]

\* Fault of the upsert: the ON CONFLICT clause is ignored and a row is added.
upsert_template_adding(catalog, template) == Append(catalog, template)

\* INSERT ... ON CONFLICT(template_id) DO UPDATE: the row keeps its place.
upsert_template(catalog, template) ==
    IF \E i \in DOMAIN catalog : catalog[i].template_id = template.template_id
    THEN [i \in DOMAIN catalog |->
            IF catalog[i].template_id = template.template_id THEN template ELSE catalog[i]]
    ELSE Append(catalog, template)

list_templates(catalog) == catalog

\* The index of the row of batch that carries assignment_id.
RowOf(batch, assignment_id) ==
    CHOOSE i \in DOMAIN batch : batch[i].assignment_id = assignment_id

\* A plain INSERT per row: a primary key already present, in the table or
\* earlier in the batch, raises sqlite3.IntegrityError and nothing is kept.
create_assignments(table, batch) ==
    LET ids == {batch[i].assignment_id : i \in DOMAIN batch}
        conflict == \/ \E i \in DOMAIN batch : batch[i].assignment_id \in DOMAIN table
                    \/ Cardinality(ids) # Len(batch)
    IN  IF conflict
        THEN [outcome |-> "IntegrityError", assignments |-> table]
        ELSE [outcome |-> "ok",
              assignments |-> [a \in (DOMAIN table) \cup ids |->
                                 IF a \in DOMAIN table THEN table[a]
                                 ELSE batch[RowOf(batch, a)]]]

\* Faults of the UPDATE: no WHERE clause; no UPDATE at all.
update_every_status(table, assignment_id, status) ==
    [a \in DOMAIN table |-> [table[a] EXCEPT !.status = status]]

update_no_status(table, assignment_id, status) == table

\* UPDATE task_assignments SET status = ? WHERE assignment_id = ?
update_assignment_status(table, assignment_id, status) ==
    [a \in DOMAIN table |->
        IF a = assignment_id THEN [table[a] EXCEPT !.status = status] ELSE table[a]]

\* Fault of the INSERT: the new row replaces the log.
insert_event_replacing(log, event) == <<event>>

\* INSERT INTO task_events: appends the row; a duplicate event_id raises.
insert_event(log, event) == Append(log, event)

\* Fault of the transaction: the UPDATE is kept when the INSERT raises.
record_event_keeping_update(log, table, event) ==
    IF \E i \in DOMAIN log : log[i].event_id = event.event_id
    THEN [outcome |-> "IntegrityError", events |-> log,
          assignments |-> update_assignment_status(table, event.assignment_id, event.status)]
    ELSE [outcome |-> "ok",
          events |-> insert_event(log, event),
          assignments |-> update_assignment_status(table, event.assignment_id, event.status)]

\* The INSERT into task_events, then the UPDATE of the assignment's status.
\* The foreign key on assignment_id is not enforced: an event for an id
\* that is not stored is inserted and the UPDATE touches no row.
record_event(log, table, event) ==
    IF \E i \in DOMAIN log : log[i].event_id = event.event_id
    THEN [outcome |-> "IntegrityError", events |-> log, assignments |-> table]
    ELSE [outcome |-> "ok",
          events |-> insert_event(log, event),
          assignments |-> update_assignment_status(table, event.assignment_id, event.status)]

\* The rows of ids, ordered by assignment_id (the order of the digests is
\* modelled by one fixed total order of the identifiers).
RECURSIVE RowsInOrder(_, _)
RowsInOrder(table, ids) ==
    IF ids = {} THEN <<>>
    ELSE LET first == CHOOSE a \in ids : TRUE
         IN  <<table[first]>> \o RowsInOrder(table, ids \ {first})

\* SELECT ... WHERE user_id = ? AND date_assigned = ? ORDER BY assignment_id
list_assignments_for_date(table, user_id, date_value) ==
    RowsInOrder(table, {a \in DOMAIN table :
                          /\ table[a].user_id = user_id
                          /\ table[a].date_assigned = date_value})

\* The rows of one user dated first..last, date by date.
RECURSIVE RowsByDate(_, _, _, _)
RowsByDate(table, user_id, first, last) ==
    IF first > last THEN <<>>
    ELSE list_assignments_for_date(table, user_id, first)
            \o RowsByDate(table, user_id, first + 1, last)

\* Fault of the WHERE clause: the end date is left out of the range.
list_assignments_before(table, user_id, start_date, end_date) ==
    RowsByDate(table, user_id, start_date, end_date - 1)

\* SELECT ... WHERE user_id = ? AND date_assigned BETWEEN ? AND ?
\* ORDER BY date_assigned, assignment_id
list_assignments_between(table, user_id, start_date, end_date) ==
    RowsByDate(table, user_id, start_date, end_date)

fetch_assignment(table, assignment_id) ==
    IF assignment_id \in DOMAIN table THEN table[assignment_id] ELSE None

(***************************************************************************)
(* services.py: the seeded generator and the picker.                       *)
(***************************************************************************)
\* int(sha256("user:date").hexdigest(), 16): a fixed function of the pair.
_seeded_rng(user_id, date_value) ==
    (salt * 17 + user_id * 7 + date_value * 13) % RngMod

\* One step of the generator.
RngNext(s) == (s * 5 + 3) % RngMod

\* Fault of randint: the upper end is overshot by one.
randint_overshoot(s, a, b) == a + (RngNext(s) % (b - a + 2))

\* rng.randint(a, b): one draw, a value in a..b.
randint(s, a, b) == a + (RngNext(s) % (b - a + 1))

\* random.sample's pool step: pool[j] = pool[n - i - 1], and the pool shrinks.
pool_without(pool, j) ==
    [i \in 1..(Len(pool) - 1) |-> IF i = j THEN pool[Len(pool)] ELSE pool[i]]

\* rng.sample(population, k) for a population of at most 21 elements: k draws
\* without replacement from a pool.
RECURSIVE sample(_, _, _)
sample(pool, k, s) ==
    IF k = 0 THEN <<>>
    ELSE LET s1 == RngNext(s)
             j == (s1 % Len(pool)) + 1
         IN  <<pool[j]>> \o sample(pool_without(pool, j), k - 1, s1)

_assignment_id(user_id, date_value, template_id) == <<user_id, date_value, template_id>>

\* templates = [t for t in list_templates() if t.skill in rules.active_skills],
\* or the default catalog when that list is empty.
eligible_templates(catalog, rules) ==
    LET filtered == SelectSeq(list_templates(catalog),
                              LAMBDA t : t.skill \in rules.active_skills)
    IN  IF filtered = <<>> THEN DEFAULT_TEMPLATES ELSE filtered

\* count = rng.randint(rules.min_daily_tasks, rules.max_daily_tasks)
daily_count(user_id, date_value, rules) ==
    randint(_seeded_rng(user_id, date_value), rules.min_daily_tasks, rules.max_daily_tasks)

\* The assignments tuple generate_daily_plan builds before it stores it.
daily_assignments(catalog, user_id, date_value, rules) ==
    LET pool == eligible_templates(catalog, rules)
        s0 == _seeded_rng(user_id, date_value)
        count == daily_count(user_id, date_value, rules)
        selected == sample(pool, Min(count, Len(pool)), RngNext(s0))
    IN  [i \in DOMAIN selected |->
            TaskAssignment(_assignment_id(user_id, date_value, selected[i].template_id),
                           user_id, selected[i].template_id, selected[i].title,
                           selected[i].skill, date_value, "assigned")]

\* str(uuid.uuid4()): an identifier no stored event carries.
uuid4(log) ==
    CHOOSE n \in 1..(Len(log) + 1) : \A i \in DOMAIN log : log[i].event_id # n

\* generate_daily_plan: build the assignments, store them, return the plan;
\* an error of create_assignments propagates and no plan is returned.
generate_daily_plan(catalog, table, user_id, date_value, rules) ==
    LET plan == daily_assignments(catalog, user_id, date_value, rules)
        stored == create_assignments(table, plan)
    IN  [outcome |-> stored.outcome,
         assignments |-> stored.assignments,
         plan |-> IF stored.outcome = "ok" THEN plan ELSE <<>>]

\* record_result: a new event with a fresh event_id, handed to record_event.
record_result(log, table, user_id, assignment_id, status) ==
    record_event(log, table, TaskEvent(uuid4(log), assignment_id, user_id, status))

(***************************************************************************)
(* bot.py                                                                  *)
(***************************************************************************)
\* Fault of the boundary check: the owner is not compared.
not_found_any_owner(assignment, user_id) == assignment = None

\* done / fail: "if not assignment or assignment.user_id != user.id".
not_found(assignment, user_id) ==
    \/ assignment = None
    \/ assignment.user_id # user_id

(***************************************************************************)
(* The state machine.                                                      *)
(***************************************************************************)
NoId == <<>>

\* An id no plan ever produces.
UnknownId == <<0, 0, "none">>

Result(op, user, date_value, rules, assignment_id, status, outcome, plan) ==
    [op |-> op, user |-> user, date |-> date_value, rules |-> rules,
     assignment_id |-> assignment_id, status |-> status, outcome |-> outcome,
     plan |-> plan]

NoResult == Result("none", 0, 0, 0, NoId, "none", "none", <<>>)

\* The assignment ids a caller passes: the id of each user's first-day
\* "body-01" assignment, whether it is stored yet or not, and an unknown id.
AssignmentIdInputs ==
    {_assignment_id(u, 1, "body-01") : u \in Users} \cup {UnknownId}

\* The statuses a caller records (the transport records these two).
StatusInputs == {"done", "failed"}

\* TaskService.seed_templates: upsert every default template, in order.
RECURSIVE upsert_all(_, _)
upsert_all(catalog, list) ==
    IF list = <<>> THEN catalog
    ELSE upsert_all(upsert_template(catalog, Head(list)), Tail(list))

seed_templates(catalog) == upsert_all(catalog, DEFAULT_TEMPLATES)

\* Storage(db_path) on a new file: _init_db creates empty tables.
Init ==
    /\ templates = <<>>
    /\ assignments = [a \in {} |-> None]
    /\ events = <<>>
    /\ salt \in 0..MaxSalt
    /\ today = 1
    /\ result = NoResult
    /\ pc = [w \in Writers |-> "idle"]
    /\ seen = [w \in Writers |-> [user |-> 0, date |-> 0, rows |-> <<>>]]

\* build_app: a new Storage, then service.seed_templates().
InitBot ==
    /\ templates = seed_templates(<<>>)
    /\ assignments = [a \in {} |-> None]
    /\ events = <<>>
    /\ salt \in 0..MaxSalt
    /\ today = 1
    /\ result = NoResult
    /\ pc = [w \in Writers |-> "idle"]
    /\ seen = [w \in Writers |-> [user |-> 0, date |-> 0, rows |-> <<>>]]

SeedTemplates ==
    /\ templates' = seed_templates(templates)
    /\ result' = Result("seed_templates", 0, 0, 0, NoId, "none", "ok", <<>>)
    /\ UNCHANGED <<assignments, events, salt, today, pc, seen>>

UpsertTemplate(t) ==
    /\ templates' = upsert_template(templates, t)
    /\ result' = Result("upsert_template", 0, 0, 0, NoId, "none", "ok", <<>>)
    /\ UNCHANGED <<assignments, events, salt, today, pc, seen>>

\* TaskService.generate_daily_plan(user_id, date_value, RulesInputs[r]): the
\* plan is returned when create_assignments returns, the error is raised
\* otherwise.
GenerateDailyPlan(u, d, r) ==
    LET call == generate_daily_plan(templates, assignments, u, d, RulesInputs[r])
    IN  /\ assignments' = call.assignments
        /\ result' = Result("generate_daily_plan", u, d, r, NoId, "none",
                            call.outcome, call.plan)
        /\ UNCHANGED <<templates, events, salt, today, pc, seen>>

\* TaskService.record_result(user_id, assignment_id, status)
RecordResult(u, a, st) ==
    LET call == record_result(events, assignments, u, a, st)
    IN  /\ Len(events) < MaxEvents
        /\ events' = call.events
        /\ assignments' = call.assignments
        /\ result' = Result("record_result", u, 0, 0, a, st, call.outcome, <<>>)
        /\ UNCHANGED <<templates, salt, today, pc, seen>>

\* The service API on one ledger: catalog seeding, plans under the default
\* rules and under single-skill rules, recorded results.
Next ==
    \/ SeedTemplates
    \/ \E u \in Users, d \in Dates, r \in {1, 3} : GenerateDailyPlan(u, d, r)
    \/ \E u \in Users, a \in AssignmentIdInputs, st \in StatusInputs : RecordResult(u, a, st)

Spec == Init /\ [][Next]_vars

\* The picker on a changing catalog: every rules input, every template input.
NextPicker ==
    \/ SeedTemplates
    \/ \E t \in TemplateInputs : UpsertTemplate(t)
    \/ \E u \in Users, d \in Dates, r \in DOMAIN RulesInputs : GenerateDailyPlan(u, d, r)

SpecPicker == Init /\ [][NextPicker]_vars

(***************************************************************************)
(* The command handlers of bot.py, one update at a time.                   *)
(***************************************************************************)
\* The first assignment of each stored (user, date) listing.
ShownIds ==
    {a \in DOMAIN assignments :
        a = Head(list_assignments_for_date(assignments, assignments[a].user_id,
                                           assignments[a].date_assigned)).assignment_id}

\* What a user types after /done or /fail: nothing, an id shown to some
\* user, or an id that was never shown.
ArgInputs == ShownIds \cup {UnknownId, NoId}

\* Fault of /day: the stored listing is not looked at and the plan of the day
\* is written over the stored rows.
DayRegenerating(u) ==
    LET plan == daily_assignments(templates, u, today, DEFAULT_RULES)
        ids == {plan[i].assignment_id : i \in DOMAIN plan}
    IN  /\ assignments' = [a \in (DOMAIN assignments) \cup ids |->
                              IF a \in ids THEN plan[RowOf(plan, a)] ELSE assignments[a]]
        /\ result' = Result("day", u, today, 1, NoId, "none", "listed", plan)
        /\ UNCHANGED <<templates, events, salt, today, pc, seen>>

\* /day
Day(u) ==
    LET rows == list_assignments_for_date(assignments, u, today)
        call == generate_daily_plan(templates, assignments, u, today, DEFAULT_RULES)
    IN  /\ IF rows # <<>>
           THEN /\ result' = Result("day", u, today, 0, NoId, "none", "listed", rows)
                /\ UNCHANGED assignments
           ELSE /\ assignments' = call.assignments
                /\ result' = Result("day", u, today, 1, NoId, "none",
                                    IF call.outcome = "ok" THEN "listed" ELSE call.outcome,
                                    call.plan)
        /\ UNCHANGED <<templates, events, salt, today, pc, seen>>

\* /done and /fail differ in the status they record only.
Command(op, u, arg, st) ==
    LET assignment == fetch_assignment(assignments, arg)
        call == record_result(events, assignments, u, arg, st)
    IN  /\ IF arg = NoId
           THEN /\ result' = Result(op, u, 0, 0, arg, st, "usage", <<>>)
                /\ UNCHANGED <<events, assignments>>
           ELSE IF not_found(assignment, u)
           THEN /\ result' = Result(op, u, 0, 0, arg, st, "not_found", <<>>)
                /\ UNCHANGED <<events, assignments>>
           ELSE /\ Len(events) < MaxEvents
                /\ events' = call.events
                /\ assignments' = call.assignments
                /\ result' = Result(op, u, 0, 0, arg, st,
                                    IF call.outcome = "ok" THEN "recorded" ELSE call.outcome,
                                    <<>>)
        /\ UNCHANGED <<templates, salt, today, pc, seen>>

Done(u, arg) == Command("done", u, arg, "done")

Fail(u, arg) == Command("fail", u, arg, "failed")

\* Midnight passes in the configured timezone.
NextDay ==
    /\ today < MaxDay
    /\ today' = today + 1
    /\ UNCHANGED <<templates, assignments, events, salt, result, pc, seen>>

NextBot ==
    \/ \E u \in Users : Day(u)
    \/ \E u \in Users, arg \in ArgInputs : Done(u, arg)
    \/ \E u \in Users, arg \in ArgInputs : Fail(u, arg)
    \/ NextDay

SpecBot == InitBot /\ [][NextBot]_vars

(***************************************************************************)
(* Two /day handlers on the same database file (two processes, each with   *)
(* its own connections): the read of list_assignments_for_date and the     *)
(* transaction of create_assignments are separate steps.                   *)
(***************************************************************************)
DayRead(w, u) ==
    /\ pc[w] = "idle"
    /\ seen' = [seen EXCEPT ![w] = [user |-> u, date |-> today,
                                    rows |-> list_assignments_for_date(assignments, u, today)]]
    /\ pc' = [pc EXCEPT ![w] = "read"]
    /\ UNCHANGED <<templates, assignments, events, salt, today, result>>

DayWrite(w) ==
    LET call == generate_daily_plan(templates, assignments, seen[w].user, seen[w].date,
                                    DEFAULT_RULES)
    IN  /\ pc[w] = "read"
        /\ IF seen[w].rows # <<>>
           THEN /\ pc' = [pc EXCEPT ![w] = "replied"]
                /\ UNCHANGED assignments
           ELSE /\ assignments' = call.assignments
                /\ pc' = [pc EXCEPT ![w] = IF call.outcome = "ok" THEN "replied" ELSE "raised"]
        /\ UNCHANGED <<templates, events, salt, today, result, seen>>

\* The handler is over; the process takes the next /day update.
DayReturn(w) ==
    /\ pc[w] \in {"replied", "raised"}
    /\ pc' = [pc EXCEPT ![w] = "idle"]
    /\ seen' = [seen EXCEPT ![w] = [user |-> 0, date |-> 0, rows |-> <<>>]]
    /\ UNCHANGED <<templates, assignments, events, salt, today, result>>

NextRace ==
    \/ \E w \in Writers, u \in Users : DayRead(w, u)
    \/ \E w \in Writers : DayWrite(w)
    \/ \E w \in Writers : DayReturn(w)
    \/ NextDay

SpecRace == InitBot /\ [][NextRace]_vars

(***************************************************************************)
(* domain.py and services.py: rates, summaries and decisions.  A rate is   *)
(* held in ten-thousandths: round(x, 4) has four decimals, so 0.8 is 8000  *)
(* and 0.5 is 5000.  The notes are the ASCII glosses of the Russian notes; *)
(* "hold" is <<"hold">> and "promote:<n>" is <<"promote", n>>.             *)
(***************************************************************************)
MaxCount == 5
MaxWeeks == 5
MaxLevel == 2

\* round(n / d, 4) in ten-thousandths, to nearest and half to even.  n / d
\* lies exactly between two four-decimal values only when d is a multiple of
\* 32, which no input of the model is.
round4(n, d) ==
    LET q == (n * 10000) \div d
        r == (n * 10000) % d
    IN  IF 2 * r < d THEN q
        ELSE IF 2 * r > d THEN q + 1
        ELSE IF q % 2 = 0 THEN q ELSE q + 1

\* A fault of the guard: an empty total counts as complete.
completion_rate_empty_is_full(done, total) ==
    IF total = 0 THEN 10000 ELSE round4(done, total)

completion_rate(done, total) ==
    IF total = 0 THEN 0 ELSE round4(done, total)

WeekSummary(week_start, week_end, rate, overload_flag, stagnation_flag, critical_failures) ==
    [week_start |-> week_start, week_end |-> week_end, completion_rate |-> rate,
     overload_flag |-> overload_flag, stagnation_flag |-> stagnation_flag,
     critical_failures |-> critical_failures]

MonthSummary(month_start, month_end, rate, closed_weeks, critical_failures, level_change) ==
    [month_start |-> month_start, month_end |-> month_end, completion_rate |-> rate,
     closed_weeks |-> closed_weeks, critical_failures |-> critical_failures,
     level_change |-> level_change]

WeeklyAdjustment(week_start, adjustment_note) ==
    [week_start |-> week_start, adjustment_note |-> adjustment_note]

\* A fault of the precedence: overload is looked at before stagnation.
weekly_adjustment_overload_first(summary) ==
    WeeklyAdjustment(summary.week_start,
        IF summary.overload_flag THEN "reduce load: overload"
        ELSE IF summary.stagnation_flag THEN "reduce load: stagnation"
        ELSE IF summary.completion_rate > 8000 THEN "increase load: stable completion"
        ELSE "load unchanged")

weekly_adjustment(summary) ==
    WeeklyAdjustment(summary.week_start,
        IF summary.stagnation_flag THEN "reduce load: stagnation"
        ELSE IF summary.overload_flag THEN "reduce load: overload"
        ELSE IF summary.completion_rate > 8000 THEN "increase load: stable completion"
        ELSE "load unchanged")

Hold == <<"hold">>

Promote(level) == <<"promote", level>>

\* A fault of the veto: critical failures are not looked at.
_level_decision_without_veto(completion, closed_weeks, critical_failures, level) ==
    IF completion >= 8000 /\ closed_weeks >= 4 THEN Promote(level + 1)
    ELSE Hold

_level_decision(completion, closed_weeks, critical_failures, level) ==
    IF critical_failures # 0 THEN Hold
    ELSE IF completion >= 8000 /\ closed_weeks >= 4 THEN Promote(level + 1)
    ELSE IF completion < 5000 THEN Hold
    ELSE Hold

\* sum(1 for item in assignments if item.status == status)
CountStatus(rows, status) ==
    Cardinality({i \in DOMAIN rows : rows[i].status = status})

DaySummary(date_value, assigned, done, failed) ==
    [date_value |-> date_value, assigned |-> assigned, done |-> done, failed |-> failed]

\* summarize_day(assignments): the date is the first item's, or date.today(),
\* the host's date, when there is no item.
summarize_day(items, host_today) ==
    DaySummary(IF items # <<>> THEN items[1].date_assigned ELSE host_today,
               Len(items), CountStatus(items, "done"), CountStatus(items, "failed"))

\* TaskService.daily_summary(user_id, date_value)
daily_summary(table, user_id, date_value, host_today) ==
    summarize_day(list_assignments_for_date(table, user_id, date_value), host_today)

\* TaskService.weekly_summary(user_id, week_start)
weekly_summary(table, user_id, week_start) ==
    LET week_end == week_start + 6
        rows == list_assignments_between(table, user_id, week_start, week_end)
        done == CountStatus(rows, "done")
        failed == CountStatus(rows, "failed")
        total == Len(rows)
    IN  WeekSummary(week_start, week_end, completion_rate(done, total),
                    total > 7 * DEFAULT_RULES.max_daily_tasks,
                    done = 0 /\ total > 0,
                    IF failed >= 5 THEN failed ELSE 0)

\* Fault of the threshold: the weekly threshold is used for the month.
month_of_counts_weekly_threshold(month_start, done, failed, total, level) ==
    LET completion == completion_rate(done, total)
        critical_failures == IF failed >= 5 THEN failed ELSE 0
    IN  MonthSummary(month_start, month_start + 29, completion, 4, critical_failures,
                     _level_decision(completion, 4, critical_failures, level))

\* TaskService.monthly_summary once the assignments of the window are counted.
month_of_counts(month_start, done, failed, total, level) ==
    LET completion == completion_rate(done, total)
        closed_weeks == 4
        critical_failures == IF failed >= 15 THEN failed ELSE 0
    IN  MonthSummary(month_start, month_start + 29, completion, closed_weeks,
                     critical_failures,
                     _level_decision(completion, closed_weeks, critical_failures, level))

\* TaskService.monthly_summary(user_id, month_start, level)
monthly_summary(table, user_id, month_start, level) ==
    LET rows == list_assignments_between(table, user_id, month_start, month_start + 29)
    IN  month_of_counts(month_start, CountStatus(rows, "done"),
                        CountStatus(rows, "failed"), Len(rows), level)

\* The rates a summary is built with: every rate of at most MaxCount
\* assignments and the neighbours of the two thresholds.
RateInputs ==
    {completion_rate(d, t) : d \in 0..MaxCount, t \in 0..MaxCount}
        \cup {4999, 5001, 7999, 8001}

\* critical_failures as the summaries produce it and below their thresholds.
CriticalInputs == {0, 1, 5, 15, 16}

CompletionRate(done, total) ==
    /\ result' = [op |-> "completion_rate", done |-> done, total |-> total,
                  value |-> completion_rate(done, total)]
    /\ UNCHANGED <<templates, assignments, events, salt, today, pc, seen>>

WeeklyAdjustmentOf(rate, overload_flag, stagnation_flag, critical_failures) ==
    LET summary == WeekSummary(1, 7, rate, overload_flag, stagnation_flag, critical_failures)
    IN  /\ result' = [op |-> "weekly_adjustment", summary |-> summary,
                      value |-> weekly_adjustment(summary)]
        /\ UNCHANGED <<templates, assignments, events, salt, today, pc, seen>>

LevelDecision(completion, closed_weeks, critical_failures, level) ==
    /\ result' = [op |-> "_level_decision", completion |-> completion,
                  closed_weeks |-> closed_weeks, critical_failures |-> critical_failures,
                  level |-> level,
                  value |-> _level_decision(completion, closed_weeks, critical_failures, level)]
    /\ UNCHANGED <<templates, assignments, events, salt, today, pc, seen>>

\* The pure functions on their inputs.
NextPolicy ==
    \/ \E done \in 0..MaxCount, total \in 0..MaxCount : CompletionRate(done, total)
    \/ \E rate \in RateInputs, o \in BOOLEAN, s \in BOOLEAN, c \in CriticalInputs :
          WeeklyAdjustmentOf(rate, o, s, c)
    \/ \E rate \in RateInputs, w \in 0..MaxWeeks, c \in CriticalInputs, l \in 1..MaxLevel :
          LevelDecision(rate, w, c, l)

SpecPolicy == Init /\ [][NextPolicy]_vars

(***************************************************************************)
(* The summaries on a ledger.  The ledgers are those create_assignments    *)
(* and record_event leave after plans of up to four default templates a    *)
(* day: user 1 has n assignments spread over the days 1..7, the first of   *)
(* them done, the next failed, the rest open, and one assignment on each   *)
(* of the days 0, 8, 30 and 31; user 2 has one assignment on day 1.        *)
(***************************************************************************)
MaxRows == 22
MaxStart == 2
MaxPair == 3

LedgerRow(user_id, date_value, k, status) ==
    TaskAssignment(_assignment_id(user_id, date_value, DEFAULT_TEMPLATES[k].template_id),
                   user_id, DEFAULT_TEMPLATES[k].template_id, DEFAULT_TEMPLATES[k].title,
                   DEFAULT_TEMPLATES[k].skill, date_value, status)

WindowRows(n, nDone, nFailed) ==
    [i \in 1..n |->
        LedgerRow(1, 1 + ((i - 1) % 7), 1 + ((i - 1) \div 7),
                  IF i <= nDone THEN "done"
                  ELSE IF i <= nDone + nFailed THEN "failed"
                  ELSE "assigned")]

OutsideRows ==
    << LedgerRow(1, 0, 1, "done"), LedgerRow(1, 8, 1, "failed"),
       LedgerRow(1, 30, 1, "failed"), LedgerRow(1, 31, 1, "done"),
       LedgerRow(2, 1, 1, "done") >>

\* task_assignments after create_assignments(rows) and the recorded results.
TableOf(rows) ==
    [a \in {rows[i].assignment_id : i \in DOMAIN rows} |-> rows[RowOf(rows, a)]]

\* task_events after one record_event for each row that is not open.
EventsOf(rows) ==
    LET closed == SelectSeq(rows, LAMBDA row : row.status # "assigned")
    IN  [i \in DOMAIN closed |->
            TaskEvent(i, closed[i].assignment_id, closed[i].user_id, closed[i].status)]

InitSummary ==
    \E n \in 0..MaxRows, nDone \in 0..MaxRows, nFailed \in 0..MaxRows :
        /\ nDone + nFailed <= n
        /\ templates = seed_templates(<<>>)
        /\ assignments = TableOf(WindowRows(n, nDone, nFailed) \o OutsideRows)
        /\ events = EventsOf(WindowRows(n, nDone, nFailed) \o OutsideRows)
        /\ salt = 0
        /\ today = 1
        /\ result = NoResult
        /\ pc = [w \in Writers |-> "idle"]
        /\ seen = [w \in Writers |-> [user |-> 0, date |-> 0, rows |-> <<>>]]

\* date.today() reads the host's clock in the host's zone and _today() reads
\* it in the configured zone: the two dates are equal or neighbours.
HostDates == {today - 1, today, today + 1}

DailySummary(u, d, host_today) ==
    /\ result' = [op |-> "daily_summary", user |-> u, date |-> d,
                  value |-> daily_summary(assignments, u, d, host_today)]
    /\ UNCHANGED <<templates, assignments, events, salt, today, pc, seen>>

WeeklySummary(u, week_start) ==
    /\ result' = [op |-> "weekly_summary", user |-> u, week_start |-> week_start,
                  value |-> weekly_summary(assignments, u, week_start)]
    /\ UNCHANGED <<templates, assignments, events, salt, today, pc, seen>>

MonthlySummary(u, month_start, level) ==
    /\ result' = [op |-> "monthly_summary", user |-> u, month_start |-> month_start,
                  level |-> level,
                  value |-> monthly_summary(assignments, u, month_start, level)]
    /\ UNCHANGED <<templates, assignments, events, salt, today, pc, seen>>

\* <<done, failed, total>> of months too large to store row by row: a month
\* of 100 assignments with 14 and with 15 failures, and months of 25000
\* assignments on both sides of the rate that rounds to 0.8.
CountInputs ==
    { <<0, 0, 0>>, <<80, 14, 100>>, <<80, 15, 100>>, <<79, 14, 100>>,
      <<19998, 2, 25000>>, <<19999, 1, 25000>> }

\* monthly_summary on a ledger whose window holds the given counts.
MonthlySummaryOfCounts(counts, month_start, level) ==
    /\ result' = [op |-> "monthly_summary_of_counts", done |-> counts[1],
                  failed |-> counts[2], total |-> counts[3],
                  month_start |-> month_start, level |-> level,
                  value |-> month_of_counts(month_start, counts[1], counts[2],
                                            counts[3], level)]
    /\ UNCHANGED <<templates, assignments, events, salt, today, pc, seen>>

\* The reads of a ledger.  A read changes no table, so a second read finds
\* the ledger the first one found: each ledger is read once.
NextSummary ==
    \/ \E u \in Users, week_start \in 1..MaxStart :
          result = NoResult /\ WeeklySummary(u, week_start)
    \/ \E u \in Users, month_start \in 1..MaxStart, level \in 1..MaxLevel :
          result = NoResult /\ MonthlySummary(u, month_start, level)
    \/ \E counts \in CountInputs, level \in 1..MaxLevel :
          result = NoResult /\ MonthlySummaryOfCounts(counts, 1, level)
    \/ \E done \in 0..MaxPair, total \in 0..MaxPair :
          result = NoResult /\ CompletionRate(done, total)
    \/ \E u \in Users, d \in 0..MaxStart, host_today \in HostDates :
          result = NoResult /\ DailySummary(u, d, host_today)

SpecSummary == InitSummary /\ [][NextSummary]_vars

(***************************************************************************)
(* storage.py called directly: batches handed to create_assignments and    *)
(* events, with event ids of the caller's choice, handed to record_event.  *)
(***************************************************************************)
\* Batches for one day: the first assignment of each user, and the second
\* assignment of user 1 alone or after the first.
BatchInputs ==
    {<<LedgerRow(u, 1, 1, "assigned")>> : u \in Users}
        \cup { <<LedgerRow(1, 1, 2, "assigned")>>,
               <<LedgerRow(1, 1, 1, "assigned"), LedgerRow(1, 1, 2, "assigned")>> }

\* Events with an event_id in 1..MaxEvents, for the first assignment of a
\* user or for an id that is not stored.
EventInputs ==
    {TaskEvent(n, a, 1, st) : n \in 1..MaxEvents, a \in AssignmentIdInputs, st \in StatusInputs}

CreateAssignments(batch) ==
    LET call == create_assignments(assignments, batch)
    IN  /\ assignments' = call.assignments
        /\ result' = [op |-> "create_assignments", batch |-> batch, outcome |-> call.outcome]
        /\ UNCHANGED <<templates, events, salt, today, pc, seen>>

RecordEvent(event) ==
    LET call == record_event(events, assignments, event)
    IN  /\ events' = call.events
        /\ assignments' = call.assignments
        /\ result' = [op |-> "record_event", event |-> event, outcome |-> call.outcome]
        /\ UNCHANGED <<templates, salt, today, pc, seen>>

NextStorage ==
    \/ \E batch \in BatchInputs : CreateAssignments(batch)
    \/ \E event \in EventInputs : RecordEvent(event)

\* Storage(db_path) on a new file; no generator is involved.
InitStorage == Init /\ salt = 0

SpecStorage == InitStorage /\ [][NextStorage]_vars

(***************************************************************************)
(* Properties.                                                             *)
(***************************************************************************)
IsGenerate(r) == r.op = "generate_daily_plan"

IsRecord(r) == r.op = "record_result"

\* The call of this step repeats the call before it: generate_daily_plan
\* with the same user, date and rules, on the same catalog, after a call
\* that returned its plan.
RepeatsGenerate ==
    /\ IsGenerate(result) /\ result.outcome = "ok"
    /\ IsGenerate(result')
    /\ result'.user = result.user
    /\ result'.date = result.date
    /\ result'.rules = result.rules
    /\ templates' = templates

\* C1: a second generate_daily_plan for the same (user, date) and rules on an
\* unchanged catalog completes without an error and leaves the stored
\* assignment rows exactly as they were.
C1_SecondCallIsNoOp ==
    [][RepeatsGenerate => (result'.outcome = "ok" /\ assignments' = assignments)]_vars

\* The status of the most recently recorded event that references the
\* assignment, "assigned" when no event references it.
LastEventStatus(assignment_id) ==
    LET refs == {i \in DOMAIN events : events[i].assignment_id = assignment_id}
    IN  IF refs = {} THEN "assigned"
        ELSE events[CHOOSE i \in refs : \A j \in refs : j <= i].status

\* C2: every stored assignment's status is the status of the most recently
\* recorded event that references it, and assigned when none does.
C2_StatusIsLastEvent ==
    \A a \in DOMAIN assignments : assignments[a].status = LastEventStatus(a)

\* C3: record_result with an assignment_id that is not stored is answered
\* not found, and the event log and the assignments stay as they were.
C3_UnknownIdRecordsNothing ==
    [][(IsRecord(result') /\ result'.assignment_id \notin DOMAIN assignments)
          => (result'.outcome = "not_found"
              /\ events' = events /\ assignments' = assignments)]_vars
\* The templates generate_daily_plan samples from for the rules of a call.
EligibleFor(r) == eligible_templates(templates, RulesInputs[r.rules])

PlanTemplates(plan) == {plan[i].template_id : i \in DOMAIN plan}

\* C4 as stated: a returned plan has at least min_daily_tasks and at most
\* max_daily_tasks assignments, no more than there are eligible templates,
\* and its assignments are for pairwise distinct templates.
C4_CountWithinMinMax ==
    (IsGenerate(result) /\ result.outcome = "ok") =>
        /\ RulesInputs[result.rules].min_daily_tasks <= Len(result.plan)
        /\ Len(result.plan) <= RulesInputs[result.rules].max_daily_tasks
        /\ Len(result.plan) <= Len(EligibleFor(result))
        /\ Cardinality(PlanTemplates(result.plan)) = Len(result.plan)

\* C4 amended: a returned plan has at least min(min_daily_tasks, number of
\* eligible templates) and at most max_daily_tasks assignments, no more than
\* there are eligible templates, for pairwise distinct eligible templates.
C4_CountWithinBounds ==
    (IsGenerate(result) /\ result.outcome = "ok") =>
        /\ Min(RulesInputs[result.rules].min_daily_tasks, Len(EligibleFor(result)))
              <= Len(result.plan)
        /\ Len(result.plan) <= RulesInputs[result.rules].max_daily_tasks
        /\ Len(result.plan) <= Len(EligibleFor(result))
        /\ Cardinality(PlanTemplates(result.plan)) = Len(result.plan)
        /\ PlanTemplates(result.plan)
              \subseteq {t.template_id : t \in Range(EligibleFor(result))}

\* A plan was returned for rules with more min_daily_tasks than eligible
\* templates: it holds every eligible template.
C4_Witness ==
    /\ IsGenerate(result) /\ result.outcome = "ok"
    /\ Len(EligibleFor(result)) < RulesInputs[result.rules].min_daily_tasks
    /\ Len(result.plan) = Len(EligibleFor(result))

\* C5: two generate_daily_plan calls with the same arguments on the same
\* catalog yield assignments with identical ids, skills and titles.
C5_SameArgumentsSamePlan ==
    [][RepeatsGenerate =>
          {<<x.assignment_id, x.skill, x.title>> : x \in Range(result'.plan)}
            = {<<x.assignment_id, x.skill, x.title>> : x \in Range(result.plan)}]_vars

\* The command of this step is a /done or /fail that names a stored
\* assignment of another user.
NamesForeignAssignment ==
    /\ result'.op \in {"done", "fail"}
    /\ result'.assignment_id \in DOMAIN assignments
    /\ assignments[result'.assignment_id].user_id # result'.user

\* The command of this step is a /done or /fail that names an id that is
\* not stored.
NamesUnknownAssignment ==
    /\ result'.op \in {"done", "fail"}
    /\ result'.assignment_id # NoId
    /\ result'.assignment_id \notin DOMAIN assignments

\* C6: a /done or /fail that names another user's assignment is answered
\* as one that names an unknown id is, not found; it records no event and
\* changes no assignment.
C6_ForeignIsNotFound ==
    [][(NamesForeignAssignment \/ NamesUnknownAssignment) =>
          /\ result'.outcome = "not_found"
          /\ events' = events
          /\ assignments' = assignments]_vars

\* A /done or /fail named another user's stored assignment and was refused.
C6_Witness ==
    /\ result.op \in {"done", "fail"}
    /\ result.assignment_id \in DOMAIN assignments
    /\ assignments[result.assignment_id].user_id # result.user
    /\ result.outcome = "not_found"

\* Assignment a is stored after the step exactly as before it.
Kept(a) == a \in DOMAIN assignments' /\ assignments'[a] = assignments[a]

\* C7 as stated: generate_daily_plan and record_result for user U leave every
\* assignment of another user as it was.
C7_OtherUsersUntouched ==
    [][(IsGenerate(result') \/ IsRecord(result')) =>
          \A a \in DOMAIN assignments :
              assignments[a].user_id # result'.user => Kept(a)]_vars

\* C7 amended: generate_daily_plan for user U leaves every assignment of
\* another user as it was; record_result leaves every assignment but the
\* one it names as it was, whoever owns the one it names.
C7_OnlyNamedAssignmentChanges ==
    [][/\ IsGenerate(result') =>
              \A a \in DOMAIN assignments :
                  assignments[a].user_id # result'.user => Kept(a)
       /\ IsRecord(result') =>
              \A a \in DOMAIN assignments :
                  a # result'.assignment_id => Kept(a)]_vars

\* record_result for one user has set the status of another user's
\* assignment, next to an assignment it left alone.
C7_Witness ==
    /\ IsRecord(result)
    /\ result.assignment_id \in DOMAIN assignments
    /\ assignments[result.assignment_id].user_id # result.user
    /\ assignments[result.assignment_id].status = result.status
    /\ \E a \in DOMAIN assignments :
          assignments[a].user_id # result.user /\ assignments[a].status = "assigned"

\* C8: recording an event for a stored assignment makes fetch_assignment
\* return the recorded status with every other field as before, and leaves
\* every other assignment as it was.
C8_RecordSetsStatusOnly ==
    [][(IsRecord(result') /\ result'.assignment_id \in DOMAIN assignments) =>
          LET before == fetch_assignment(assignments, result'.assignment_id)
              after == fetch_assignment(assignments', result'.assignment_id)
          IN  /\ after = [before EXCEPT !.status = result'.status]
              /\ DOMAIN assignments' = DOMAIN assignments
              /\ \A a \in DOMAIN assignments :
                    a # result'.assignment_id => Kept(a)]_vars

\* A failed event was recorded for a stored assignment that was done
\* before, and another assignment is stored.
C8_Witness ==
    /\ IsRecord(result)
    /\ result.status = "failed"
    /\ fetch_assignment(assignments, result.assignment_id) # None
    /\ fetch_assignment(assignments, result.assignment_id).status = "failed"
    /\ Len(events) = 2
    /\ events[1].assignment_id = result.assignment_id
    /\ events[1].status = "done"
    /\ Cardinality(DOMAIN assignments) > 1

\* C9: racing /day handlers all complete without an error.
C9_NoWriterRaises == \A w \in Writers : pc[w] # "raised"

\* C10: the event log only grows at its end, a returned record_result adds
\* exactly one event, and no assignment is ever deleted.
C10_AppendOnly ==
    [][/\ Len(events') >= Len(events)
       /\ SubSeq(events', 1, Len(events)) = events
       /\ (IsRecord(result') /\ result'.outcome = "ok") =>
              /\ Len(events') = Len(events) + 1
              /\ events'[Len(events')].assignment_id = result'.assignment_id
              /\ events'[Len(events')].status = result'.status
       /\ DOMAIN assignments \subseteq DOMAIN assignments']_vars

\* Two events are logged for one stored assignment.
C10_Witness ==
    /\ Len(events) = 2
    /\ events[1].assignment_id = events[2].assignment_id
    /\ events[1].event_id # events[2].event_id
    /\ events[1].assignment_id \in DOMAIN assignments

\* C11: weekly_adjustment gives one note, by fixed precedence: stagnation
\* first, then overload, then a completion rate strictly above 0.8, then no
\* change; the week_start is the summary's.
C11_NoteByPrecedence ==
    result.op = "weekly_adjustment" =>
        LET s == result.summary
            note == result.value.adjustment_note
        IN  /\ result.value.week_start = s.week_start
            /\ note \in {"reduce load: stagnation", "reduce load: overload",
                         "increase load: stable completion", "load unchanged"}
            /\ note = "reduce load: stagnation" <=> s.stagnation_flag
            /\ note = "reduce load: overload" <=>
                   (~s.stagnation_flag /\ s.overload_flag)
            /\ note = "increase load: stable completion" <=>
                   (~s.stagnation_flag /\ ~s.overload_flag /\ s.completion_rate > 8000)
            /\ note = "load unchanged" <=>
                   (~s.stagnation_flag /\ ~s.overload_flag /\ s.completion_rate <= 8000)

\* A summary with both flags set and a full completion rate gets the
\* stagnation note.
C11_Witness ==
    /\ result.op = "weekly_adjustment"
    /\ result.summary.stagnation_flag
    /\ result.summary.overload_flag
    /\ result.summary.completion_rate = 10000
    /\ result.value.adjustment_note = "reduce load: stagnation"

\* C12: _level_decision promotes to level + 1 exactly when there is no
\* critical failure, the completion rate is at least 0.8 and at least four
\* weeks are closed; it holds otherwise.
C12_PromoteExactlyWhen ==
    result.op = "_level_decision" =>
        result.value =
            IF /\ result.critical_failures = 0
               /\ result.completion >= 8000
               /\ result.closed_weeks >= 4
            THEN Promote(result.level + 1)
            ELSE Hold

\* Sixteen critical failures hold the level of a fully completed month.
C12_Witness ==
    /\ result.op = "_level_decision"
    /\ result.critical_failures = 16
    /\ result.completion = 10000
    /\ result.closed_weeks = 4
    /\ result.value = Hold

\* The assignments of user_id dated first..last.
InWindow(user_id, first, last) ==
    {a \in DOMAIN assignments :
        /\ assignments[a].user_id = user_id
        /\ assignments[a].date_assigned >= first
        /\ assignments[a].date_assigned <= last}

WithStatus(ids, status) == {a \in ids : assignments[a].status = status}

\* C13: weekly_summary(user_id, week_start) counts exactly the user's
\* assignments dated week_start..week_start+6: overload iff more than 21,
\* stagnation iff none done and at least one, critical_failures the failed
\* count when at least 5 and 0 otherwise.
C13_WeekOfTheUser ==
    result.op = "weekly_summary" =>
        LET mine == InWindow(result.user, result.week_start, result.week_start + 6)
            total == Cardinality(mine)
            done == Cardinality(WithStatus(mine, "done"))
            failed == Cardinality(WithStatus(mine, "failed"))
            summary == result.value
        IN  /\ summary.week_start = result.week_start
            /\ summary.week_end = result.week_start + 6
            /\ summary.completion_rate = completion_rate(done, total)
            /\ summary.overload_flag <=> total > 21
            /\ summary.stagnation_flag <=> (done = 0 /\ total >= 1)
            /\ summary.critical_failures = IF failed >= 5 THEN failed ELSE 0

\* An overloaded week with five failures and none done, on a ledger that also
\* holds rows of the day after the week and of another user.
C13_Witness ==
    /\ result.op = "weekly_summary"
    /\ result.value.overload_flag
    /\ result.value.stagnation_flag
    /\ result.value.critical_failures = 5
    /\ \E a \in DOMAIN assignments :
          /\ assignments[a].user_id = result.user
          /\ assignments[a].date_assigned = result.week_start + 7
    /\ \E a \in DOMAIN assignments : assignments[a].user_id # result.user

\* What C14 says of a month summary, given the counts of its window; the
\* rate that decides is the one the summary carries, done / total rounded to
\* four decimals, which is at least 0.8 from done / total = 0.79995 on.
MonthOf(summary, month_start, level, done, failed, total) ==
    /\ summary.month_start = month_start
    /\ summary.month_end = month_start + 29
    /\ summary.closed_weeks = 4
    /\ summary.critical_failures = IF failed >= 15 THEN failed ELSE 0
    /\ summary.completion_rate = completion_rate(done, total)
    /\ summary.level_change \in {Hold, Promote(level + 1)}
    /\ summary.level_change = Promote(level + 1) <=>
           (failed < 15 /\ total > 0 /\ 20000 * done >= 15999 * total)

\* The counts a monthly_summary call is about.
MonthCounts ==
    IF result.op = "monthly_summary"
    THEN LET mine == InWindow(result.user, result.month_start, result.month_start + 29)
         IN  [done |-> Cardinality(WithStatus(mine, "done")),
              failed |-> Cardinality(WithStatus(mine, "failed")),
              total |-> Cardinality(mine)]
    ELSE [done |-> result.done, failed |-> result.failed, total |-> result.total]

IsMonth == result.op \in {"monthly_summary", "monthly_summary_of_counts"}

\* C14 as claimed: the level is promoted exactly when fewer than 15
\* assignments of the window are failed and done / total >= 0.8.
C14_PromoteAtFourFifths ==
    IsMonth =>
        (result.value.level_change = Promote(result.level + 1) <=>
            /\ MonthCounts.failed < 15
            /\ MonthCounts.total > 0
            /\ 10 * MonthCounts.done >= 8 * MonthCounts.total)

\* C14: monthly_summary(user_id, month_start, level) counts exactly the
\* user's assignments dated month_start..month_start+29; closed_weeks is 4,
\* critical_failures is the failed count when at least 15 and 0 otherwise,
\* and the level is promoted exactly when fewer than 15 are failed and the
\* rounded completion rate is at least 0.8.
C14_MonthOfTheUser ==
    IsMonth =>
        MonthOf(result.value, result.month_start, result.level,
                MonthCounts.done, MonthCounts.failed, MonthCounts.total)

\* A promotion from a stored ledger whose month holds a failed assignment on
\* its last day and leaves one out on the day after.
C14_Witness ==
    /\ result.op = "monthly_summary"
    /\ result.value.level_change = Promote(result.level + 1)
    /\ result.value.completion_rate < 10000
    /\ \E a \in DOMAIN assignments :
          /\ assignments[a].user_id = result.user
          /\ assignments[a].date_assigned = result.month_start + 29
          /\ assignments[a].status = "failed"
    /\ \E a \in DOMAIN assignments :
          /\ assignments[a].user_id = result.user
          /\ assignments[a].date_assigned = result.month_start + 30

IsSummary ==
    result.op \in {"weekly_summary", "monthly_summary", "monthly_summary_of_counts"}

\* C17 as claimed: completion_rate(done, total) lies in [0, 1] for every
\* pair of non-negative integers.
C17_RateWithinUnitInterval ==
    result.op = "completion_rate" =>
        (result.value >= 0 /\ result.value <= 10000)

\* C17: completion_rate(done, total) lies in [0, 1] whenever done <= total
\* and is 0 when total is 0; every weekly and monthly summary carries a rate
\* in [0, 1].
C17_RateOfCountedPart ==
    /\ result.op = "completion_rate" =>
          /\ result.total = 0 => result.value = 0
          /\ result.done <= result.total =>
                (result.value >= 0 /\ result.value <= 10000)
    /\ IsSummary =>
          (result.value.completion_rate >= 0 /\ result.value.completion_rate <= 10000)

\* Two of three done: the rate is 0.6667.
C17_Witness ==
    /\ result.op = "completion_rate"
    /\ result.done = 2
    /\ result.total = 3
    /\ result.value = 6667

\* C15: every stored assignment has its template in the stored catalog, with
\* the skill the assignment carries.
C15_SkillOfCatalogTemplate ==
    \A a \in DOMAIN assignments :
        \E i \in DOMAIN templates :
            /\ templates[i].template_id = assignments[a].template_id
            /\ templates[i].skill = assignments[a].skill

\* No template of the stored catalog has a skill of the rules.
NoneEligible(r) ==
    \A i \in DOMAIN templates : templates[i].skill \notin RulesInputs[r].active_skills

\* C16: when no template of the stored catalog has an active skill,
\* generate_daily_plan does not fail; it returns a plan drawn from the
\* default catalog, non-empty when min_daily_tasks >= 1.
C16_FallbackNeverFails ==
    (IsGenerate(result) /\ NoneEligible(result.rules)) =>
        /\ result.outcome = "ok"
        /\ RulesInputs[result.rules].min_daily_tasks >= 1 => result.plan # <<>>
        /\ PlanTemplates(result.plan)
              \subseteq {t.template_id : t \in Range(DEFAULT_TEMPLATES)}

\* C18: after seed_templates a further seed_templates changes nothing; the
\* catalog holds each default template_id once, with the default skill,
\* title and durations; assignments and events are as they were.
C18_SeedIsIdempotent ==
    [][result'.op = "seed_templates" =>
          /\ seed_templates(templates') = templates'
          /\ \A k \in DOMAIN DEFAULT_TEMPLATES :
                /\ Cardinality({i \in DOMAIN templates' :
                      templates'[i].template_id = DEFAULT_TEMPLATES[k].template_id}) = 1
                /\ DEFAULT_TEMPLATES[k] \in Range(templates')
          /\ \A i \in DOMAIN templates :
                templates[i].template_id \in {t.template_id : t \in Range(templates')}
          /\ assignments' = assignments
          /\ events' = events]_vars

\* The catalog was seeded after a template of its own was stored first and
\* after plans were stored.
C18_Witness ==
    /\ result.op = "seed_templates"
    /\ Len(templates) = 7
    /\ templates[1].template_id = "body-02"
    /\ templates[2] = DEFAULT_TEMPLATES[1]
    /\ DOMAIN assignments # {}

\* C19: a record_event that meets its event_id in the log raises, and a
\* record_event that raises leaves the log and every assignment as they
\* were; one that returns has added the event and set the status.
C19_FailedEventChangesNothing ==
    [][result'.op = "record_event" =>
          /\ (\E i \in DOMAIN events : events[i].event_id = result'.event.event_id)
                => result'.outcome = "IntegrityError"
          /\ result'.outcome # "ok" =>
                (events' = events /\ assignments' = assignments)
          /\ result'.outcome = "ok" =>
                /\ events' = Append(events, result'.event)
                /\ DOMAIN assignments' = DOMAIN assignments
                /\ \A a \in DOMAIN assignments :
                      assignments'[a] =
                          IF a = result'.event.assignment_id
                          THEN [assignments[a] EXCEPT !.status = result'.event.status]
                          ELSE assignments[a]]_vars

\* An event with an event_id already logged was refused; it named a stored
\* assignment and carried another status than the one stored.
C19_Witness ==
    /\ result.op = "record_event"
    /\ result.outcome = "IntegrityError"
    /\ \E i \in DOMAIN events : events[i].event_id = result.event.event_id
    /\ result.event.assignment_id \in DOMAIN assignments
    /\ assignments[result.event.assignment_id].status # result.event.status

\* The ids of a batch.
BatchIds(batch) == {batch[i].assignment_id : i \in DOMAIN batch}

\* C20: create_assignments with a batch of which some ids are stored and
\* others are not raises no error, leaves the stored rows as they are and
\* stores the others.
C20_PartialBatchIsAbsorbed ==
    [][(/\ result'.op = "create_assignments"
        /\ BatchIds(result'.batch) \cap DOMAIN assignments # {}
        /\ BatchIds(result'.batch) \ DOMAIN assignments # {}) =>
          /\ result'.outcome = "ok"
          /\ \A a \in DOMAIN assignments :
                a \in DOMAIN assignments' /\ assignments'[a] = assignments[a]
          /\ BatchIds(result'.batch) \subseteq DOMAIN assignments']_vars

\* C21: daily_summary(user_id, date) carries the date asked for and counts
\* the user's assignments of that date: all of them, the done and the
\* failed ones; also when there is none.
C21_DayOfTheUser ==
    result.op = "daily_summary" =>
        LET mine == InWindow(result.user, result.date, result.date)
        IN  /\ result.value.date_value = result.date
            /\ result.value.assigned = Cardinality(mine)
            /\ result.value.done = Cardinality(WithStatus(mine, "done"))
            /\ result.value.failed = Cardinality(WithStatus(mine, "failed"))
            /\ result.value.done + result.value.failed <= result.value.assigned

\* The counts of C21 alone, whatever date the summary carries.
C21_CountsOfTheDay ==
    result.op = "daily_summary" =>
        LET mine == InWindow(result.user, result.date, result.date)
        IN  /\ result.value.assigned = Cardinality(mine)
            /\ result.value.done = Cardinality(WithStatus(mine, "done"))
            /\ result.value.failed = Cardinality(WithStatus(mine, "failed"))
            /\ result.value.assigned > 0 => result.value.date_value = result.date

\* The ids of the assignments of user u dated d in table.
IdsOfDay(table, u, d) ==
    {a \in DOMAIN table : table[a].user_id = u /\ table[a].date_assigned = d}

\* C22: a /day (a step that leaves a new answer) of a user who has a stored
\* assignment for today writes nothing and answers with the stored
\* assignments, in the order of the listing; no command changes the
\* set of assignments of a user and day that has some, removes an
\* assignment or puts a recorded status back to assigned.
C22_DayKeepsStoredPlan ==
    [][/\ (/\ result' # result
           /\ result'.op = "day"
           /\ IdsOfDay(assignments, result'.user, today) # {}) =>
              /\ assignments' = assignments
              /\ events' = events
              /\ result'.outcome = "listed"
              /\ result'.plan = list_assignments_for_date(assignments, result'.user, today)
       /\ \A u \in Users, d \in 1..MaxDay :
              IdsOfDay(assignments, u, d) # {} =>
                  IdsOfDay(assignments', u, d) = IdsOfDay(assignments, u, d)
       /\ \A a \in DOMAIN assignments :
              /\ a \in DOMAIN assignments'
              /\ assignments'[a] = [assignments[a] EXCEPT !.status = assignments'[a].status]
              /\ assignments[a].status # "assigned" => assignments'[a].status # "assigned"]_vars

\* A /day after a recorded result: the answer lists the stored plan, with an
\* assignment that is no longer open.
C22_Witness ==
    /\ result.op = "day"
    /\ result.outcome = "listed"
    /\ Len(result.plan) >= 2
    /\ \E i \in DOMAIN result.plan : result.plan[i].status # "assigned"
    /\ \E i \in DOMAIN result.plan : result.plan[i].status = "assigned"
    /\ events # <<>>

====
